---- MODULE Spec2Model ----
(***************************************************************************)
(* Model of doxygen/process_source_files.py: the brace-scope matcher, the  *)
(* namespace-aware group injector, the module header parser and the        *)
(* per-module driver loop of __main__.                                     *)
(*                                                                         *)
(* Text is a sequence of one-character strings. Positions are the Python   *)
(* positions (0-based); At and Slice translate them.                       *)
(***************************************************************************)
EXTENDS Integers, Sequences, FiniteSets, TLC

VARIABLES
    \* get_curly_brace_scope_end, called on its own
    string, start_pos, ret, mpc,
    \* add_doxygen_group, one call
    path, group_name, disk, original, content, match, search_start, spans,
    ipc, err,
    \* __main__: the module loop
    juce_modules, module_index, rpc, source_headers, header_content,
    block_info_result, short_description, detail_lines, module_definitions,
    top_files, sub_files, dest_file, printed, run_err, index_file

matcherVars == <<string, start_pos, ret, mpc>>
injectVars == <<path, group_name, disk, original, content, match,
                search_start, spans, ipc, err>>
runVars == <<juce_modules, module_index, rpc, source_headers, header_content,
             block_info_result, short_description, detail_lines,
             module_definitions, top_files, sub_files, dest_file, printed,
             run_err, index_file>>
vars == <<matcherVars, injectVars, runVars>>

(***************************************************************************)
(* Bounds                                                                  *)
(***************************************************************************)
\* longest text handed to the matcher on its own
MaxLen == 6
\* most fragments a source text is assembled from
MaxFrags == 5
\* most fragments a module header is assembled from
MaxHdr == 5
\* most modules in a run, most files directly in a module directory, most
\* files in a subdirectory of a module
MaxModules == 2
MaxTop == 1
MaxSub == 1

(***************************************************************************)
(* Python sequence primitives                                              *)
(***************************************************************************)
\* s[i]
At(s, i) == s[i + 1]

\* s[a:b]
Slice(s, a, b) == SubSeq(s, a + 1, b)

\* s.startswith(lit, p)
HasAt(s, p, lit) == /\ p + Len(lit) <= Len(s)
                    /\ Slice(s, p, p + Len(lit)) = lit

Min(S) == CHOOSE x \in S : \A y \in S : x <= y
Max(S) == CHOOSE x \in S : \A y \in S : x >= y

RECURSIVE Flatten(_)
Flatten(ss) == IF ss = <<>> THEN <<>> ELSE Head(ss) \o Flatten(Tail(ss))

\* the characters of the alphabet that the regex class \s and str.strip() take
IsSpace(c) == c \in {" ", "\t", "\n", "\r"}

\* position after the longest run of \s characters starting at p
RECURSIVE SkipSpace(_, _)
SkipSpace(s, p) ==
    IF p < Len(s) /\ IsSpace(At(s, p)) THEN SkipSpace(s, p + 1) ELSE p

\* position after the longest run of \S characters starting at p
RECURSIVE SkipNonSpace(_, _)
SkipNonSpace(s, p) ==
    IF p < Len(s) /\ ~IsSpace(At(s, p)) THEN SkipNonSpace(s, p + 1) ELSE p

(***************************************************************************)
(* get_curly_brace_scope_end                                               *)
(***************************************************************************)
\* the value returned when the scan runs off the end of the string
NotFound == -1
\* stands for `raise ValueError("string must have { at start pos")`
RaisesValueError == -2

\* the while loop: scan from pos with the given bracket_counter
RECURSIVE ScanBraces(_, _, _)
ScanBraces(s, pos, bracket_counter) ==
    IF pos >= Len(s) THEN NotFound
    ELSE IF At(s, pos) = "{"
         THEN ScanBraces(s, pos + 1, bracket_counter + 1)
    ELSE IF At(s, pos) = "}"
         THEN IF bracket_counter - 1 = 0
              THEN pos
              ELSE ScanBraces(s, pos + 1, bracket_counter - 1)
    ELSE ScanBraces(s, pos + 1, bracket_counter)

\* mutant: the scan starts on the opening brace itself (start_pos += 1 lost)
get_curly_brace_scope_end_nostep(s, pos) ==
    IF At(s, pos) # "{" THEN RaisesValueError ELSE ScanBraces(s, pos, 1)

get_curly_brace_scope_end(s, pos) ==
    IF At(s, pos) # "{" THEN RaisesValueError ELSE ScanBraces(s, pos + 1, 1)

(***************************************************************************)
(* add_doxygen_group: patterns and markers                                 *)
(***************************************************************************)
JucePrefix == <<"j", "u", "c", "e", "_">>
ExtH == <<"h">>
ExtDox == <<"d", "o", "x">>

\* re.match(r"^juce_.*\.(h|dox)", filename) is not None
FilenameMatches(filename) ==
    /\ HasAt(filename, 0, JucePrefix)
    /\ \E i \in Len(JucePrefix)..(Len(filename) - 1) :
          /\ At(filename, i) = "."
          /\ HasAt(filename, i + 1, ExtH) \/ HasAt(filename, i + 1, ExtDox)
          /\ \A k \in Len(JucePrefix)..(i - 1) : At(filename, k) # "\n"

group_definition_start(name) ==
    <<"\r", "\n", "/", "*", "*", " ", "@", "w", "e", "a", "k", "g", "r", "o",
      "u", "p", " ">>
    \o name
    \o <<"\r", "\n", " ", "*", " ", " ", "@", "{", "\r", "\n", " ", "*", "/",
         "\r", "\n">>

group_definition_end ==
    <<"\r", "\n", "/", "*", "*", " ", "@", "}", "*", "/", "\r", "\n">>

KwNamespace == <<"n", "a", "m", "e", "s", "p", "a", "c", "e">>

\* namespace_regex = \s+namespace\s+\S+\s+{ tried at position s alone: the end
\* of the match, or -1. \s and \S are complementary classes, so every greedy
\* run is the whole run and no backtracking alternative can succeed.
namespace_regex_match(c, s) ==
    LET a == SkipSpace(c, s) IN
    IF a = s \/ ~HasAt(c, a, KwNamespace) THEN -1
    ELSE LET b0 == a + Len(KwNamespace)
             b  == SkipSpace(c, b0) IN
         IF b = b0 THEN -1
         ELSE LET d0 == SkipNonSpace(c, b) IN
              IF d0 = b THEN -1
              ELSE LET d == SkipSpace(c, d0) IN
                   IF d = d0 \/ d >= Len(c) THEN -1
                   ELSE IF At(c, d) # "{" THEN -1 ELSE d + 1

\* `None` as a match object
NoMatch == [start |-> -1, end |-> -1]

\* namespace_regex.search(content, pos): the leftmost match starting at or
\* after pos
namespace_regex_search(c, pos) ==
    LET hits == {s \in pos..(Len(c) - 1) : namespace_regex_match(c, s) # -1} IN
    IF hits = {} THEN NoMatch
    ELSE [start |-> Min(hits), end |-> namespace_regex_match(c, Min(hits))]

\* match.group()
MatchGroup(c, m) == Slice(c, m.start, m.end)

\* lines 57-61: the text with both markers inserted
InsertMarkers(c, m, namespace_end, name) ==
    Slice(c, 0, m.end)
    \o group_definition_start(name)
    \o Slice(c, m.end, namespace_end)
    \o group_definition_end
    \o Slice(c, namespace_end, Len(c))

\* mutant: the cursor is left just behind the opening brace
NextSearchStart_afteropen(m, namespace_end, name) == m.end

\* lines 62-64
NextSearchStart(m, namespace_end, name) ==
    namespace_end + Len(group_definition_start(name)) + Len(group_definition_end)

NoError == [kind |-> "none", match |-> <<>>, path |-> <<>>]


\* add_doxygen_group as one call on a file holding `text`: lines 49-66 run to
\* the end of the loop or to the raise
RECURSIVE NamespaceLoop(_, _, _)
NamespaceLoop(c, m, name) ==
    IF m = NoMatch THEN [raised |-> FALSE, content |-> c]
    ELSE LET namespace_end == get_curly_brace_scope_end(c, m.end - 1) IN
         IF namespace_end = NotFound THEN [raised |-> TRUE, content |-> c]
         ELSE LET grown == InsertMarkers(c, m, namespace_end, name) IN
              NamespaceLoop(grown,
                  namespace_regex_search(grown,
                      NextSearchStart(m, namespace_end, name)),
                  name)

\* the outcome of add_doxygen_group(path, group_name): whether it raised, and
\* the file afterwards
add_doxygen_group(filename, text, name) ==
    IF ~FilenameMatches(filename) THEN [raised |-> FALSE, disk |-> text]
    ELSE LET r == NamespaceLoop(text, namespace_regex_search(text, 0), name) IN
         IF r.raised THEN [raised |-> TRUE, disk |-> text]
         ELSE [raised |-> FALSE,
               disk |-> group_definition_start(name) \o r.content
                        \o group_definition_end]

(***************************************************************************)
(* __main__: parsing the module header                                     *)
(***************************************************************************)
BeginMarker ==
    <<"B", "E", "G", "I", "N", "_", "J", "U", "C", "E", "_", "M", "O", "D",
      "U", "L", "E", "_", "D", "E", "C", "L", "A", "R", "A", "T", "I", "O",
      "N">>
EndMarker ==
    <<"E", "N", "D", "_", "J", "U", "C", "E", "_", "M", "O", "D", "U", "L",
      "E", "_", "D", "E", "C", "L", "A", "R", "A", "T", "I", "O", "N">>
KeyDescription ==
    <<"d", "e", "s", "c", "r", "i", "p", "t", "i", "o", "n", ":">>

\* positions of lit in t
Occurrences(t, lit) == {i \in 0..(Len(t) - Len(lit)) : HasAt(t, i, lit)}

\* re.match(r".*BEGIN_JUCE_MODULE_DECLARATION(.*)END_JUCE_MODULE_DECLARATION.*",
\* content, re.DOTALL): None, or group(1). Both .* are greedy: the first takes
\* the last begin marker that still has an end marker behind it, the group
\* runs to the last end marker.
NoBlock == [found |-> FALSE, group1 |-> <<>>]
BlockInfo(text) ==
    LET ends == Occurrences(text, EndMarker)
        begins == {i \in Occurrences(text, BeginMarker) :
                      \E j \in ends : j >= i + Len(BeginMarker)}
    IN IF begins = {} THEN NoBlock
       ELSE [found |-> TRUE,
             group1 |-> Slice(text, Max(begins) + Len(BeginMarker), Max(ends))]

\* str.split("\n")
RECURSIVE SplitFrom(_, _, _)
SplitFrom(t, p, cur) ==
    IF p >= Len(t) THEN <<cur>>
    ELSE IF At(t, p) = "\n" THEN <<cur>> \o SplitFrom(t, p + 1, <<>>)
    ELSE SplitFrom(t, p + 1, Append(cur, At(t, p)))
SplitLines(t) == SplitFrom(t, 0, <<>>)

\* str.strip()
RECURSIVE RStrip(_)
RStrip(t) ==
    IF t # <<>> /\ IsSpace(t[Len(t)]) THEN RStrip(SubSeq(t, 1, Len(t) - 1))
    ELSE t
Strip(t) == LET r == RStrip(t) IN Slice(r, SkipSpace(r, 0), Len(r))

\* re.match(r"^.*?description:\s*(.*)$", stripped_line): whether it matches
DescriptionMatches(line) == Occurrences(line, KeyDescription) # {}

\* mutant: a greedy .* in front of the key takes the last `description:`
DescriptionGroup_greedy(line) ==
    LET k == Max(Occurrences(line, KeyDescription)) IN
    Slice(line, SkipSpace(line, k + Len(KeyDescription)), Len(line))

\* ... and its group(1): .*? stops at the first `description:`, \s* takes the
\* whitespace behind it, (.*) the rest of the line
DescriptionGroup(line) ==
    LET k == Min(Occurrences(line, KeyDescription)) IN
    Slice(line, SkipSpace(line, k + Len(KeyDescription)), Len(line))

\* short_description before any module has assigned it
Unbound == <<"<unbound>">>

\* lines 116-124: the loop over the lines of the block
RECURSIVE ParseLines(_, _, _)
ParseLines(lines, sd, dl) ==
    IF lines = <<>> THEN [short_description |-> sd, detail_lines |-> dl]
    ELSE LET stripped_line == Strip(Head(lines)) IN
         IF stripped_line = <<>> THEN ParseLines(Tail(lines), sd, dl)
         ELSE IF DescriptionMatches(stripped_line)
              THEN ParseLines(Tail(lines), DescriptionGroup(stripped_line), dl)
              ELSE ParseLines(Tail(lines), sd, Append(dl, stripped_line))

(***************************************************************************)
(* __main__: the group definition of a module                              *)
(***************************************************************************)
CrLf == <<"\r", "\n">>

\* sep.join(lines)
RECURSIVE Join(_, _)
Join(lines, sep) ==
    IF lines = <<>> THEN <<>>
    ELSE IF Len(lines) = 1 THEN lines[1]
    ELSE lines[1] \o sep \o Join(Tail(lines), sep)

Digits == <<"1", "2", "3", "4", "5", "6", "7", "8", "9">>
\* the name of the k-th directory of juce_modules
ModuleName(k) == <<"m", Digits[k]>>
SubdirName == <<"s">>
\* "{n}-{s}".format(n=module_name, s=subdir)
SubgroupName(k) == ModuleName(k) \o <<"-">> \o SubdirName

DefgroupOpen == <<"/", "*", "*", " ", "@", "d", "e", "f", "g", "r", "o", "u",
                  "p", " ">>
Indent == <<" ", " ", " ", " ">>

\* lines 134-135
RECURSIVE BulletLines(_)
BulletLines(dl) ==
    IF dl = <<>> THEN <<>>
    ELSE << Indent \o <<"-", " ">> \o Head(dl) >> \o BulletLines(Tail(dl))

\* lines 130-156: "\r\n".join(module_definiton)
ModuleDefinition(k, sd, dl, has_subdir) ==
    Join(<< DefgroupOpen \o ModuleName(k) \o <<" ">> \o ModuleName(k),
            Indent \o sd,
            <<>> >>
         \o BulletLines(dl)
         \o << <<>>,
               Indent \o <<"@", "{">>,
               <<"*", "/">> >>
         \o (IF has_subdir
             THEN << <<>>,
                     DefgroupOpen \o SubgroupName(k) \o <<" ">> \o SubdirName
                         \o <<" ", "*", "/">> >>
             ELSE <<>>)
         \o << <<>>,
               <<"/", "*", "*", " ", "@", "}", " ", "*", "/">> >>,
         CrLf)

ErrorPreprocessing ==
    <<"E", "r", "r", "o", "r", " ", "p", "r", "e", "p", "r", "o", "c", "e",
      "s", "s", "i", "n", "g", " ">>

(***************************************************************************)
(* Inputs                                                                  *)
(***************************************************************************)
\* every sequence over S of length 0..n
SeqsUpTo(S, n) == UNION {[1..k -> S] : k \in 0..n}

\* strings handed to the matcher on its own
MatcherStrings == SeqsUpTo({"{", "}", "x"}, MaxLen) \ {<<>>}

NsOpen == <<" ", "n", "a", "m", "e", "s", "p", "a", "c", "e", " ", "A", " ",
            "{">>
Fragments == {NsOpen, <<"{">>, <<"}">>, <<"x">>}

\* `namespace A { x } namespace B { y }`, the first namespace at offset 0
TwoSiblings ==
    <<"n", "a", "m", "e", "s", "p", "a", "c", "e", " ", "A", " ", "{", " ",
      "x", " ", "}", " ", "n", "a", "m", "e", "s", "p", "a", "c", "e", " ",
      "B", " ", "{", " ", "y", " ", "}">>
\* `int x;`
IntX == <<"i", "n", "t", " ", "x", ";">>
\* a namespace whose name runs into a brace, and one laid out over CRLF lines
NameWithBrace ==
    <<" ", "n", "a", "m", "e", "s", "p", "a", "c", "e", " ", "A", "{", " ",
      "{">>
CrLfNamespace ==
    <<"\r", "\n", "n", "a", "m", "e", "s", "p", "a", "c", "e", " ", "B", "\r",
      "\n", "{", "\r", "\n", "}", "\r", "\n">>
\* a namespace holding a nested namespace, followed by a sibling
NestedThenSibling ==
    Flatten(<<NsOpen, NsOpen, <<"x", "}", "}">>, NsOpen, <<"}">> >>)
ExtraTexts == {TwoSiblings, <<" ">> \o TwoSiblings, IntX, NameWithBrace,
               CrLfNamespace, NestedThenSibling}

\* file contents handed to add_doxygen_group
SourceTexts == {Flatten(fs) : fs \in SeqsUpTo(Fragments, MaxFrags)}
               \cup ExtraTexts

FileNames ==
    { <<"j", "u", "c", "e", "_", "a", ".", "h">>,
      <<"j", "u", "c", "e", "_", "a", ".", "d", "o", "x">>,
      <<"j", "u", "c", "e", "_", "a", ".", "c", "p", "p">>,
      <<"a", ".", "h">>,
      <<"j", "u", "c", "e", "_", "a", ".", "h", "p", "p">>,
      <<"j", "u", "c", "e", "_", "a", ".", "h", ".", "i", "n">>,
      <<"x", "j", "u", "c", "e", "_", "a", ".", "h">>,
      <<"j", "u", "c", "e", "_", "a", "h">> }

GroupG == <<"G">>
GroupNames == {GroupG, <<"m", "1", "-", "s">>}

\* module headers handed to the header parser on its own
LineDescription ==
    <<" ", " ", "d", "e", "s", "c", "r", "i", "p", "t", "i", "o", "n", ":",
      " ", "D", "o", "e", "s", " ", "X", "\n">>
LineId == <<" ", " ", "i", "d", ":", " ", "f", "o", "o", "\n">>
LineTwoKeys ==
    <<"a", " ", "d", "e", "s", "c", "r", "i", "p", "t", "i", "o", "n", ":",
      " ", " ", "Y", " ", "d", "e", "s", "c", "r", "i", "p", "t", "i", "o",
      "n", ":", " ", "Z", " ", "\r", "\n">>
LineOther ==
    <<" ", " ", "d", "e", "s", "c", "r", "i", "p", "t", "i", "o", "n", ":",
      " ", "O", "t", "h", "e", "r", "\n">>
LineBlank == <<" ", "\t", "\n">>
HdrFragments == {BeginMarker, EndMarker, <<"\n">>, LineDescription, LineId,
                 LineTwoKeys}

\* the header of the specification's example
ExampleHeader ==
    Flatten(<<BeginMarker, <<"\n">>, LineDescription, LineId, EndMarker>>)
ExtraHeaders ==
    { Flatten(<<BeginMarker, LineBlank, LineId, LineBlank, LineOther,
                LineId, LineDescription, <<" ">>, EndMarker, <<"\n">> >>) }
Headers == {Flatten(fs) : fs \in SeqsUpTo(HdrFragments, MaxHdr)}
           \cup ExtraHeaders

\* module headers met in a run: two with a description, one whose block has
\* no description line, one without the end marker
RunHeaders ==
    { ExampleHeader,
      Flatten(<<BeginMarker, <<"\n">>, LineOther, EndMarker>>),
      Flatten(<<BeginMarker, <<"\n">>, LineId, EndMarker>>),
      Flatten(<<BeginMarker, <<"\n">>, LineDescription>>) }

\* files met in a run: one with a closed namespace, one with a namespace that
\* is never closed, one that does not match the filename pattern
GoodFile ==
    [name |-> <<"j", "u", "c", "e", "_", "a", ".", "h">>,
     text |-> NsOpen \o <<"x", "}">>]
MalformedFile ==
    [name |-> <<"j", "u", "c", "e", "_", "b", ".", "h">>,
     text |-> NsOpen]
OtherFile ==
    [name |-> <<"j", "u", "c", "e", "_", "c", ".", "c", "p", "p">>,
     text |-> NsOpen]
RunFiles == {GoodFile, MalformedFile, OtherFile}

\* the listings of a directory: sequences of distinct files
Listings(S, n) ==
    {q \in SeqsUpTo(S, n) :
        \A i, j \in 1..Len(q) : i # j => q[i] # q[j]}

(***************************************************************************)
(* get_curly_brace_scope_end called on its own                             *)
(***************************************************************************)
MatcherIdle ==
    /\ string = <<>>
    /\ start_pos = 0
    /\ ret = 0
    /\ mpc = "idle"

MatcherInit ==
    /\ string \in MatcherStrings
    /\ start_pos \in 0..(Len(string) - 1)
    /\ ret = 0
    /\ mpc = "call"

\* lines 15-26: the call returns
MatcherReturn ==
    /\ mpc = "call"
    /\ get_curly_brace_scope_end(string, start_pos) # RaisesValueError
    /\ ret' = get_curly_brace_scope_end(string, start_pos)
    /\ mpc' = "returned"
    /\ UNCHANGED <<string, start_pos, injectVars, runVars>>

\* lines 13-14: the call raises ValueError
MatcherRaise ==
    /\ mpc = "call"
    /\ get_curly_brace_scope_end(string, start_pos) = RaisesValueError
    /\ mpc' = "raised"
    /\ UNCHANGED <<string, start_pos, ret, injectVars, runVars>>

(***************************************************************************)
(* add_doxygen_group, one call                                             *)
(***************************************************************************)
InjectIdle ==
    /\ path = <<>>
    /\ group_name = <<>>
    /\ disk = <<>>
    /\ original = <<>>
    /\ content = <<>>
    /\ match = NoMatch
    /\ search_start = 0
    /\ spans = <<>>
    /\ ipc = "idle"
    /\ err = NoError

\* disk is the text of the file at path, as f.read() returns it and f.write()
\* takes it; original remembers the file as it was when the call was made; spans
\* remembers, for every namespace processed so far, where its opening and
\* closing brace now are
InjectInit ==
    /\ path \in FileNames
    /\ group_name \in GroupNames
    /\ disk \in SourceTexts
    /\ original = disk
    /\ content = <<>>
    /\ match = NoMatch
    /\ search_start = 0
    /\ spans = <<>>
    /\ ipc = "call"
    /\ err = NoError

\* line 38, condition false: the function returns without touching the file
AddGroupSkip ==
    /\ ipc = "call"
    /\ ~FilenameMatches(path)
    /\ ipc' = "done"
    /\ UNCHANGED <<path, group_name, disk, original, content, match,
                   search_start, spans, err, matcherVars, runVars>>

\* lines 38-49: the file is read and searched from the start
AddGroupRead ==
    /\ ipc = "call"
    /\ FilenameMatches(path)
    /\ content' = disk
    /\ match' = namespace_regex_search(disk, 0)
    /\ ipc' = "loop"
    /\ UNCHANGED <<path, group_name, disk, original, search_start, spans,
                   err, matcherVars, runVars>>

\* lines 50-66, one pass of the loop that does not raise
AddGroupIterate ==
    /\ ipc = "loop"
    /\ match # NoMatch
    /\ LET namespace_end == get_curly_brace_scope_end(content, match.end - 1)
           grown == InsertMarkers(content, match, namespace_end, group_name)
           cursor == NextSearchStart(match, namespace_end, group_name)
       IN /\ namespace_end \notin {NotFound, RaisesValueError}
          /\ content' = grown
          /\ search_start' = cursor
          /\ match' = namespace_regex_search(grown, cursor)
          /\ spans' = Append(spans,
                 [open  |-> match.end - 1,
                  close |-> namespace_end
                            + Len(group_definition_start(group_name))
                            + Len(group_definition_end)])
    /\ UNCHANGED <<path, group_name, disk, original, ipc, err, matcherVars, runVars>>

\* mutant: the file is rewritten as the loop goes, so a raise leaves the
\* partly processed text behind
AddGroupRaise_written ==
    /\ ipc = "loop"
    /\ match # NoMatch
    /\ get_curly_brace_scope_end(content, match.end - 1) = NotFound
    /\ ipc' = "raised"
    /\ err' = [kind |-> "ValueError", match |-> MatchGroup(content, match),
               path |-> path]
    /\ disk' = content
    /\ UNCHANGED <<path, group_name, original, content, match,
                   search_start, spans, matcherVars, runVars>>

\* lines 51-56: no closing brace, ValueError leaves the function. (The
\* character at match.end() - 1 is the brace the pattern ends with, so the
\* matcher's own ValueError cannot arise here.)
AddGroupRaise ==
    /\ ipc = "loop"
    /\ match # NoMatch
    /\ get_curly_brace_scope_end(content, match.end - 1) = NotFound
    /\ ipc' = "raised"
    /\ err' = [kind |-> "ValueError", match |-> MatchGroup(content, match),
               path |-> path]
    /\ UNCHANGED <<path, group_name, disk, original, content, match,
                   search_start, spans, matcherVars, runVars>>

\* mutant: the text is written back without the enclosing pair of markers
AddGroupWrite_bare ==
    /\ ipc = "loop"
    /\ match = NoMatch
    /\ disk' = content
    /\ ipc' = "done"
    /\ UNCHANGED <<path, group_name, original, content, match,
                   search_start, spans, err, matcherVars, runVars>>

\* lines 68-71: the loop is over, the file is rewritten
AddGroupWrite ==
    /\ ipc = "loop"
    /\ match = NoMatch
    /\ disk' = group_definition_start(group_name) \o content
               \o group_definition_end
    /\ ipc' = "done"
    /\ UNCHANGED <<path, group_name, original, content, match,
                   search_start, spans, err, matcherVars, runVars>>

(***************************************************************************)
(* __main__: the loop over juce_modules                                    *)
(***************************************************************************)
NoFile == [name |-> <<>>, text |-> <<>>]
Unwritten == [written |-> FALSE, text |-> <<>>]

RunIdle ==
    /\ juce_modules = 0
    /\ module_index = 0
    /\ rpc = "idle"
    /\ source_headers = <<>>
    /\ header_content = <<>>
    /\ block_info_result = NoBlock
    /\ short_description = Unbound
    /\ detail_lines = <<>>
    /\ module_definitions = <<>>
    /\ top_files = <<>>
    /\ sub_files = <<>>
    /\ dest_file = NoFile
    /\ printed = <<>>
    /\ run_err = "none"
    /\ index_file = Unwritten

\* juce_modules is the length of the list; source_headers holds the headers,
\* in the source directory, of the modules the loop has reached
RunInit ==
    /\ juce_modules \in 0..MaxModules
    /\ module_index = 0
    /\ rpc = "files"
    /\ source_headers = <<>>
    /\ header_content = <<>>
    /\ block_info_result = NoBlock
    /\ short_description = Unbound
    /\ detail_lines = <<>>
    /\ module_definitions = <<>>
    /\ top_files = <<>>
    /\ sub_files = <<>>
    /\ dest_file = NoFile
    /\ printed = <<>>
    /\ run_err = "none"
    /\ index_file = Unwritten

\* the header parser on its own: the first module of a run, its header read
ExtractInit ==
    /\ juce_modules = 1
    /\ module_index = 1
    /\ rpc = "parse"
    /\ header_content \in Headers
    /\ source_headers = <<header_content>>
    /\ block_info_result = NoBlock
    /\ short_description = Unbound
    /\ detail_lines = <<>>
    /\ module_definitions = <<>>
    /\ top_files = <<>>
    /\ sub_files = <<>>
    /\ dest_file = NoFile
    /\ printed = <<>>
    /\ run_err = "none"
    /\ index_file = Unwritten

\* lines 100-110: the next module is copied and its header read
StartModule ==
    /\ rpc = "files"
    /\ top_files = <<>>
    /\ sub_files = <<>>
    /\ module_index < juce_modules
    /\ \E h \in RunHeaders :
          /\ header_content' = h
          /\ source_headers' = Append(source_headers, h)
    /\ module_index' = module_index + 1
    /\ rpc' = "parse"
    /\ UNCHANGED <<juce_modules, block_info_result, short_description,
                   detail_lines, module_definitions, top_files, sub_files,
                   dest_file, printed, run_err, index_file, matcherVars,
                   injectVars>>

\* lines 111-124: the block is found and its lines are read
ParseHeader ==
    /\ rpc = "parse"
    /\ BlockInfo(header_content).found
    /\ block_info_result' = BlockInfo(header_content)
    /\ LET r == ParseLines(SplitLines(BlockInfo(header_content).group1),
                           short_description, <<>>)
       IN /\ short_description' = r.short_description
          /\ detail_lines' = r.detail_lines
    /\ rpc' = "define"
    /\ UNCHANGED <<juce_modules, module_index, source_headers,
                   header_content, module_definitions, top_files, sub_files,
                   dest_file, printed, run_err, index_file, matcherVars,
                   injectVars>>

\* mutant: a header without a block is read as an empty block
ParseHeaderRaise_empty ==
    /\ rpc = "parse"
    /\ ~BlockInfo(header_content).found
    /\ block_info_result' = NoBlock
    /\ detail_lines' = <<>>
    /\ rpc' = "define"
    /\ UNCHANGED <<juce_modules, module_index, source_headers,
                   header_content, short_description, module_definitions,
                   top_files, sub_files, dest_file, printed, run_err,
                   index_file, matcherVars, injectVars>>

\* lines 111-117: re.match returned None, so block_info_result.group(1)
\* raises AttributeError, which nothing catches
ParseHeaderRaise ==
    /\ rpc = "parse"
    /\ ~BlockInfo(header_content).found
    /\ block_info_result' = NoBlock
    /\ detail_lines' = <<>>
    /\ rpc' = "aborted"
    /\ run_err' = "AttributeError"
    /\ UNCHANGED <<juce_modules, module_index, source_headers,
                   header_content, short_description, module_definitions,
                   top_files, sub_files, dest_file, printed, index_file,
                   matcherVars, injectVars>>

\* lines 126-156: the group definition is appended and the module directory
\* is listed (at most one subdirectory, SubdirName)
DefineGroup ==
    /\ rpc = "define"
    /\ short_description # Unbound
    /\ \E has_subdir \in BOOLEAN :
          /\ module_definitions' =
                 Append(module_definitions,
                        ModuleDefinition(module_index, short_description,
                                         detail_lines, has_subdir))
          /\ top_files' \in Listings(RunFiles, MaxTop)
          /\ sub_files' \in IF has_subdir THEN Listings(RunFiles, MaxSub)
                                          ELSE {<<>>}
    /\ rpc' = "files"
    /\ UNCHANGED <<juce_modules, module_index, source_headers,
                   header_content, block_info_result, short_description,
                   detail_lines, dest_file, printed, run_err, index_file,
                   matcherVars, injectVars>>

\* line 132: short_description was never assigned, NameError
DefineGroupRaise ==
    /\ rpc = "define"
    /\ short_description = Unbound
    /\ rpc' = "aborted"
    /\ run_err' = "NameError"
    /\ UNCHANGED <<juce_modules, module_index, source_headers,
                   header_content, block_info_result, short_description,
                   detail_lines, module_definitions, top_files, sub_files,
                   dest_file, printed, index_file, matcherVars, injectVars>>

\* lines 159-160: a file of the module directory, add_doxygen_group returns
TopLevelFile ==
    /\ rpc = "files"
    /\ top_files # <<>>
    /\ LET f == Head(top_files)
           r == add_doxygen_group(f.name, f.text, ModuleName(module_index))
       IN /\ ~r.raised
          /\ dest_file' = [name |-> f.name, text |-> r.disk]
    /\ top_files' = Tail(top_files)
    /\ UNCHANGED <<juce_modules, module_index, rpc, source_headers,
                   header_content, block_info_result, short_description,
                   detail_lines, module_definitions, sub_files, printed,
                   run_err, index_file, matcherVars, injectVars>>

\* lines 159-160: add_doxygen_group raises and nothing catches it
TopLevelFileRaise ==
    /\ rpc = "files"
    /\ top_files # <<>>
    /\ LET f == Head(top_files)
           r == add_doxygen_group(f.name, f.text, ModuleName(module_index))
       IN /\ r.raised
          /\ dest_file' = [name |-> f.name, text |-> r.disk]
    /\ rpc' = "aborted"
    /\ run_err' = "ValueError"
    /\ UNCHANGED <<juce_modules, module_index, source_headers,
                   header_content, block_info_result, short_description,
                   detail_lines, module_definitions, top_files, sub_files,
                   printed, index_file, matcherVars, injectVars>>

\* lines 163-167: a file of a subdirectory, add_doxygen_group returns
SubdirFile ==
    /\ rpc = "files"
    /\ top_files = <<>>
    /\ sub_files # <<>>
    /\ LET f == Head(sub_files)
           r == add_doxygen_group(f.name, f.text, SubgroupName(module_index))
       IN /\ ~r.raised
          /\ dest_file' = [name |-> f.name, text |-> r.disk]
    /\ sub_files' = Tail(sub_files)
    /\ UNCHANGED <<juce_modules, module_index, rpc, source_headers,
                   header_content, block_info_result, short_description,
                   detail_lines, module_definitions, top_files, printed,
                   run_err, index_file, matcherVars, injectVars>>

\* lines 166-170: add_doxygen_group raises, the except clause prints and the
\* loop goes on
SubdirFileCaught ==
    /\ rpc = "files"
    /\ top_files = <<>>
    /\ sub_files # <<>>
    /\ LET f == Head(sub_files)
           r == add_doxygen_group(f.name, f.text, SubgroupName(module_index))
       IN /\ r.raised
          /\ dest_file' = [name |-> f.name, text |-> r.disk]
          /\ printed' = ErrorPreprocessing \o f.name
    /\ sub_files' = Tail(sub_files)
    /\ UNCHANGED <<juce_modules, module_index, rpc, source_headers,
                   header_content, block_info_result, short_description,
                   detail_lines, module_definitions, top_files, run_err,
                   index_file, matcherVars, injectVars>>

\* lines 172-174: every module is done, juce_modules.dox is written
WriteIndex ==
    /\ rpc = "files"
    /\ top_files = <<>>
    /\ sub_files = <<>>
    /\ module_index = juce_modules
    /\ index_file' = [written |-> TRUE,
                      text |-> Join(module_definitions, CrLf \o CrLf)]
    /\ rpc' = "written"
    /\ UNCHANGED <<juce_modules, module_index, source_headers,
                   header_content, block_info_result, short_description,
                   detail_lines, module_definitions, top_files, sub_files,
                   dest_file, printed, run_err, matcherVars, injectVars>>

(***************************************************************************)
(* Specifications                                                          *)
(***************************************************************************)
InitMatcher == MatcherInit /\ InjectIdle /\ RunIdle
NextMatcher == MatcherReturn \/ MatcherRaise
SpecMatcher == InitMatcher /\ [][NextMatcher]_vars

InitInject == MatcherIdle /\ InjectInit /\ RunIdle
NextInject == \/ AddGroupSkip
              \/ AddGroupRead
              \/ AddGroupIterate
              \/ AddGroupRaise
              \/ AddGroupWrite
SpecInject == InitInject /\ [][NextInject]_vars

InitExtract == MatcherIdle /\ InjectIdle /\ ExtractInit
NextExtract == ParseHeader \/ ParseHeaderRaise
SpecExtract == InitExtract /\ [][NextExtract]_vars

InitRun == MatcherIdle /\ InjectIdle /\ RunInit
NextRun == \/ StartModule
           \/ ParseHeader
           \/ ParseHeaderRaise
           \/ DefineGroup
           \/ DefineGroupRaise
           \/ TopLevelFile
           \/ TopLevelFileRaise
           \/ SubdirFile
           \/ SubdirFileCaught
           \/ WriteIndex
SpecRun == InitRun /\ [][NextRun]_vars


(***************************************************************************)
(* Properties of the brace-scope matcher                                   *)
(***************************************************************************)
\* number of positions i of t with lit at i
CountOcc(t, lit) ==
    Cardinality({i \in 0..(Len(t) - Len(lit)) : HasAt(t, i, lit)})

\* depth after position j, counting from 1 just behind the brace at openPos
BraceDepth(s, openPos, j) ==
    1 + Cardinality({k \in (openPos + 1)..j : At(s, k) = "{"})
      - Cardinality({k \in (openPos + 1)..j : At(s, k) = "}"})

\* every closing brace of t closes an earlier opening brace of t, and none
\* stays open
Balanced(t) ==
    /\ \A n \in 1..Len(t) :
          Cardinality({k \in 1..n : t[k] = "}"})
              <= Cardinality({k \in 1..n : t[k] = "{"})
    /\ Cardinality({k \in 1..Len(t) : t[k] = "}"})
          = Cardinality({k \in 1..Len(t) : t[k] = "{"})

\* C1: called on an opening brace, the matcher does not raise and returns the
\* smallest later index at which the depth counter reaches 0 (a closing brace,
\* with balanced text in between), or -1 when there is no such index.
C1_MatcherContract ==
    /\ mpc = "raised" => At(string, start_pos) # "{"
    /\ mpc = "returned" =>
          /\ At(string, start_pos) = "{"
          /\ LET zeros == {j \in (start_pos + 1)..(Len(string) - 1) :
                              BraceDepth(string, start_pos, j) = 0}
             IN IF zeros = {}
                THEN ret = NotFound
                ELSE /\ ret = Min(zeros)
                     /\ At(string, ret) = "}"
                     /\ Balanced(Slice(string, start_pos + 1, ret))

\* C1 witness: a match across a nested pair of braces
C1_Witness ==
    /\ mpc = "returned"
    /\ ret # NotFound
    /\ \E k \in (start_pos + 1)..(ret - 1) : At(string, k) = "{"

(***************************************************************************)
(* Properties of add_doxygen_group                                         *)
(***************************************************************************)
\* the filename begins with juce_ and ends with .h or .dox
EndsWith(s, lit) == Len(lit) <= Len(s) /\ HasAt(s, Len(s) - Len(lit), lit)
ClaimEligible(filename) ==
    /\ HasAt(filename, 0, JucePrefix)
    /\ EndsWith(filename, <<".">> \o ExtH) \/ EndsWith(filename, <<".">> \o ExtDox)

\* the namespace-open pattern occurs nowhere in t
NoNamespaceIn(t) ==
    \A s \in 0..(Len(t) - 1) : namespace_regex_match(t, s) = -1

\* what C2 expects for TwoSiblings: a pair of markers inside each body and a
\* pair around the whole
TwoSiblingsGrouped(name) ==
    group_definition_start(name)
    \o Slice(TwoSiblings, 0, 13) \o group_definition_start(name)
    \o Slice(TwoSiblings, 13, 16) \o group_definition_end
    \o Slice(TwoSiblings, 16, 31) \o group_definition_start(name)
    \o Slice(TwoSiblings, 31, 34) \o group_definition_end
    \o Slice(TwoSiblings, 34, 35)
    \o group_definition_end

\* C2: for `namespace A { x } namespace B { y }` the output holds one pair of
\* markers inside the body of A, one inside the body of B and one around the
\* whole output.
C2_TwoSiblingsGrouped ==
    (ipc = "done" /\ FilenameMatches(path) /\ original = TwoSiblings)
        => /\ disk = TwoSiblingsGrouped(group_name)
           /\ CountOcc(disk, group_definition_start(group_name)) = 3
           /\ CountOcc(disk, group_definition_end) = 3

\* C3: the text written is begin marker + T + end marker, T being the text
\* after namespace processing; with no namespace-open pattern in the original
\* text, T is the original text.
C3_WrittenText ==
    (ipc = "done" /\ FilenameMatches(path)) =>
        /\ disk = group_definition_start(group_name) \o content
                  \o group_definition_end
        /\ NoNamespaceIn(original) =>
              /\ content = original
              /\ disk = group_definition_start(group_name) \o original
                        \o group_definition_end

\* C3 witness: `int x;` has been rewritten
C3_Witness ==
    /\ ipc = "done"
    /\ FilenameMatches(path)
    /\ original = IntX
    /\ disk # original

\* C4: a file is rewritten only when its name begins with juce_ and ends with
\* .h or .dox; any other file is left unchanged and no error is raised.
C4_OnlyEligibleRewritten ==
    ~ClaimEligible(path) =>
        /\ disk = original
        /\ ipc # "raised"

\* C8: after each processed namespace the cursor is the new index of its
\* closing brace, right behind the inserted end marker; later matches start
\* behind it; every processed namespace has one begin marker right behind its
\* opening brace and one end marker right before its matched closing brace,
\* and no processed namespace lies inside another.
C8_CursorPastProcessed ==
    spans # <<>> =>
        LET S == group_definition_start(group_name)
            E == group_definition_end
            last == spans[Len(spans)]
        IN /\ search_start = last.close
           /\ HasAt(content, search_start - Len(E), E)
           /\ At(content, search_start) = "}"
           /\ match # NoMatch => match.start > search_start
           /\ \A k \in 1..Len(spans) :
                 /\ At(content, spans[k].open) = "{"
                 /\ HasAt(content, spans[k].open + 1, S)
                 /\ HasAt(content, spans[k].close - Len(E), E)
                 /\ get_curly_brace_scope_end(content, spans[k].open)
                        = spans[k].close
           /\ \A k \in 1..(Len(spans) - 1) : spans[k].close < spans[k + 1].open
           /\ CountOcc(content, S) = Len(spans)
           /\ CountOcc(content, E) = Len(spans)

\* C8 witness: two namespaces processed, the first holding a nested
\* namespace-open occurrence
C8_Witness ==
    /\ Len(spans) = 2
    /\ \E s \in spans[1].open..spans[1].close :
          namespace_regex_match(content, s) # -1

\* C9: when a namespace has no closing brace the call raises an error naming
\* the matched text and the path, and the file is as it was before the call.
C9_RaiseLeavesFile ==
    ipc = "raised" =>
        /\ disk = original
        /\ err.kind = "ValueError"
        /\ err.path = path
        /\ namespace_regex_match(err.match, 0) = Len(err.match)
        /\ err.match = Slice(content, match.start, match.end)
        /\ BraceDepth(content, match.end - 1, Len(content) - 1) > 0

\* C9 witness: the raise comes after an earlier namespace was processed
C9_Witness ==
    /\ ipc = "raised"
    /\ spans # <<>>
    /\ content # original


\* the call taken step by step ends as the call taken at once says
StepwiseAgrees ==
    ipc \in {"done", "raised"} =>
        /\ add_doxygen_group(path, original, group_name).disk = disk
        /\ add_doxygen_group(path, original, group_name).raised
               = (ipc = "raised")

(***************************************************************************)
(* Properties of the header parser                                         *)
(***************************************************************************)
HasKey(line) == CountOcc(line, KeyDescription) > 0
HasNoKey(line) == ~HasKey(line)
NonBlank(line) == line # <<>>

\* the lines of a block, trimmed, the blank ones dropped
RECURSIVE TrimAll(_)
TrimAll(lines) ==
    IF lines = <<>> THEN <<>>
    ELSE <<Strip(Head(lines))>> \o TrimAll(Tail(lines))
BlockLines(block) == SelectSeq(TrimAll(SplitLines(block)), NonBlank)

\* the text of line behind its first `description:` and the whitespace
\* that follows it
AfterKey(line) ==
    LET k == Min({i \in 0..(Len(line) - 1) : HasAt(line, i, KeyDescription)})
        rest == Slice(line, k + Len(KeyDescription), Len(line))
        solid == {i \in 1..Len(rest) : ~IsSpace(rest[i])}
    IN IF solid = {} THEN <<>> ELSE SubSeq(rest, Min(solid), Len(rest))

\* C5: from a header holding the begin marker and later the end marker,
\* detail_lines are the non-blank trimmed lines of the block without
\* `description:`, in order, and short_description is the text behind
\* `description:` on the last non-blank line that holds it.
C5_Extraction ==
    rpc = "define" =>
        LET lines == BlockLines(block_info_result.group1)
            tagged == {i \in 1..Len(lines) : HasKey(lines[i])}
        IN /\ block_info_result.found
           /\ detail_lines = SelectSeq(lines, HasNoKey)
           /\ tagged # {} => short_description = AfterKey(lines[Max(tagged)])

\* C5 witness: the example header gives ("Does X", ["id: foo"])
C5_Witness ==
    /\ rpc = "define"
    /\ header_content = ExampleHeader
    /\ short_description = <<"D", "o", "e", "s", " ", "X">>
    /\ detail_lines = << <<"i", "d", ":", " ", "f", "o", "o">> >>

(***************************************************************************)
(* Properties of the module loop                                           *)
(***************************************************************************)
\* the header holds the begin marker and, behind it, the end marker
HasBothMarkers(text) ==
    \E i \in 0..(Len(text) - 1) :
        /\ HasAt(text, i, BeginMarker)
        /\ \E j \in (i + Len(BeginMarker))..(Len(text) - 1) :
              HasAt(text, j, EndMarker)

\* C6: a failure of add_doxygen_group on a file, in the module directory or
\* in a subdirectory, is caught: it never ends the run.
C6_FileFailureContained ==
    ~(rpc = "aborted" /\ run_err = "ValueError")

\* C7: a module whose header lacks the begin marker or an end marker behind
\* it aborts the run with an uncaught error: it is the last module reached,
\* it gets no group definition and the index file is not written.
C7_MissingBlockAborts ==
    \A k \in 1..Len(source_headers) :
        (/\ ~HasBothMarkers(source_headers[k])
         /\ ~(k = Len(source_headers) /\ rpc = "parse"))
        => /\ k = Len(source_headers)
           /\ k = module_index
           /\ rpc = "aborted"
           /\ run_err = "AttributeError"
           /\ Len(module_definitions) = k - 1
           /\ ~index_file.written

\* C7 witness: the second module of a run has no block
C7_Witness ==
    /\ rpc = "aborted"
    /\ Len(source_headers) = 2
    /\ ~HasBothMarkers(source_headers[2])
    /\ Len(module_definitions) = 1

\* the values of the `description:` lines of a header
DescriptionsOf(text) ==
    IF ~BlockInfo(text).found THEN {}
    ELSE LET lines == BlockLines(BlockInfo(text).group1) IN
         {AfterKey(lines[i]) : i \in {j \in 1..Len(lines) : HasKey(lines[j])}}

\* C10: the short description in a module's group definition comes from a
\* `description:` line of that module's own header.
C10_OwnDescription ==
    \A k \in 1..Len(module_definitions) :
        \E d \in DescriptionsOf(source_headers[k]) :
            HasAt(module_definitions[k], 0,
                  DefgroupOpen \o ModuleName(k) \o <<" ">> \o ModuleName(k)
                  \o CrLf \o Indent \o d \o CrLf)

====
